---- MODULE Spec2Model ----
(***************************************************************************)
(* Model of src/CrossPlatformLightweightServer/src/model/                  *)
(* audio_transcriber.py: the module-level client handles set by start(),   *)
(* and one transcribe() call at a time, statement group by statement       *)
(* group.  The remote bucket, the remote recognition operation and the     *)
(* local disk are the environment.  `trace' is the observation log of one  *)
(* call: every progress_callback invocation, every remote request and      *)
(* every access to the target document, in the order the code issues them. *)
(***************************************************************************)
EXTENDS Integers, Sequences, FiniteSets, TLC

VARIABLES
    speech_client, storage_client, storage_bucket,  \* module globals
    start_result,        \* outcome of the latest start() call
    pc, error,           \* position inside transcribe(), exception raised
    source_audio_path, target_srt_path, blob_name,
    total_bytes, bytes_uploaded, finished,          \* the ResumableUpload
    operation,           \* the long-running recognition operation handle
    polls,               \* number of done() polls that answered "not done"
    line, line_index, line_start_time, line_end_time,
    res_i, word_i,       \* position of the two for-loops
    blobs,               \* objects in the remote bucket
    files,               \* target documents on disk
    trace,               \* callback invocations / remote requests / file I/O
    target_before,       \* the target document as the running call found it
    other,               \* a second transcribe call, running concurrently
    fmt                  \* the latest _format_time application

vars == <<speech_client, storage_client, storage_bucket, start_result,
          pc, error, source_audio_path, target_srt_path, blob_name,
          total_bytes, bytes_uploaded, finished, operation, polls,
          line, line_index, line_start_time, line_end_time, res_i, word_i,
          blobs, files, trace, target_before, other, fmt>>

(* state that no step of the modelled transcribe call writes *)
ambient == <<start_result, other, fmt>>

globals == <<speech_client, storage_client, storage_bucket>>
uploadVars == <<total_bytes, bytes_uploaded, finished>>
segVars == <<line, line_index, line_start_time, line_end_time, res_i, word_i>>

----------------------------------------------------------------------------
(* Bounds of the exploration *)

MaxChunks == 2        \* chunks of the largest source audio
MaxPolls == 1         \* polls answered "not done" in one call
MaxWords == 1         \* words of a recognition result in the pipeline runs
MaxSegWords == 14     \* words of a recognition result in the segmenter runs
MaxBigGaps == 1       \* pauses of _LINE_INTERVAL or more in one word stream
MaxHours == 100       \* hours of the largest time handed to _format_time

(* Program constants *)

CHUNK_SIZE == 262144              \* 2**18
MAX_NUM_WORDS_IN_LINE == 12
LINE_INTERVAL == 500

----------------------------------------------------------------------------
(* The environment: credential files, source audio files, target paths *)

Unset == "unset"      \* a module global that was annotated but never bound

(* a target path with no file behind it, and a file holding a document *)
NoFile == [exists |-> FALSE, doc |-> <<>>]

File(doc) == [exists |-> TRUE, doc |-> doc]

CredentialPaths == {"cred.json", "missing.json"}

CredentialExists(p) == p = "cred.json"

SourceFiles ==
    <<[path |-> <<"a", "x.wav">>, exists |-> TRUE, wav |-> TRUE,
       size |-> (MaxChunks - 1) * CHUNK_SIZE + 5],
      [path |-> <<"b", "x.wav">>, exists |-> TRUE, wav |-> TRUE,
       size |-> CHUNK_SIZE],
      [path |-> <<"a", "noise.wav">>, exists |-> TRUE, wav |-> FALSE,
       size |-> 100000],
      [path |-> <<"a", "empty.wav">>, exists |-> TRUE, wav |-> FALSE,
       size |-> 0],
      [path |-> <<"a", "gone.wav">>, exists |-> FALSE, wav |-> FALSE,
       size |-> 0]>>

SourcePaths == {SourceFiles[i].path : i \in 1..Len(SourceFiles)}

SourceFile(p) ==
    SourceFiles[CHOOSE i \in 1..Len(SourceFiles) : SourceFiles[i].path = p]

TargetPaths == {<<"out", "a.srt">>, <<"nodir", "b.srt">>}

TargetWritable(p) == p[1] = "out"

NoPath == <<>>

(* os.path.basename: the last component of the path *)
basename(p) == p[Len(p)]

BlobNames == {basename(p) : p \in SourcePaths}

----------------------------------------------------------------------------
(* Progress fractions are kept as exact quotients <<numerator, denominator>> *)

Frac(n, d) == <<n, d>>

IsOne(f) == f[2] > 0 /\ f[1] = f[2]

IsZero(f) == f[2] > 0 /\ f[1] = 0

InUnit(f) == f[2] > 0 /\ 0 <= f[1] /\ f[1] <= f[2]

NoArg == <<0, 0>>

Cb(phase, f) == [kind |-> "cb", name |-> phase, arg |-> f]

Net(op) == [kind |-> "net", name |-> op, arg |-> NoArg]

NetFail(op) == [kind |-> "netfail", name |-> op, arg |-> NoArg]

Io(op) == [kind |-> "io", name |-> op, arg |-> NoArg]

Op(op) == [kind |-> "op", name |-> op, arg |-> NoArg]

(* progress_callback(phase, fraction): a synchronous call, observed at once *)
progress_callback(t, phase, f) == Append(t, Cb(phase, f))

Min(a, b) == IF a < b THEN a ELSE b

UploadFractionOfChunk(bytes, total) == Frac(bytes, CHUNK_SIZE)

(* line 75: resumable.bytes_uploaded / resumable.total_bytes *)
UploadFraction(bytes, total) == Frac(bytes, total)

TranscribeFractionRaw(progress_percent) == Frac(progress_percent, 1)

(* line 90: operation.metadata.progress_percent * .01 *)
TranscribeFraction(progress_percent) == Frac(progress_percent, 100)

deleteNothing(bucket, name) == bucket

(* blob.delete() as the bucket sees it *)
delete(bucket, name) == bucket \ {name}

FlushNeededAfterCap(ln, word_start_time, end_time) ==
    \/ Len(ln) = MAX_NUM_WORDS_IN_LINE + 1
    \/ /\ ln # <<>>
       /\ word_start_time - end_time >= LINE_INTERVAL

FlushNeededPastInterval(ln, word_start_time, end_time) ==
    \/ Len(ln) = MAX_NUM_WORDS_IN_LINE
    \/ /\ ln # <<>>
       /\ word_start_time - end_time > LINE_INTERVAL

FlushNeededBeforeCap(ln, word_start_time, end_time) ==
    \/ Len(ln) = MAX_NUM_WORDS_IN_LINE - 1
    \/ /\ ln # <<>>
       /\ word_start_time - end_time >= LINE_INTERVAL

(* lines 105-106: the condition that closes the pending line *)
FlushNeeded(ln, word_start_time, end_time) ==
    \/ Len(ln) = MAX_NUM_WORDS_IN_LINE
    \/ /\ ln # <<>>
       /\ word_start_time - end_time >= LINE_INTERVAL

clearNothing(ln) == ln

(* line 109: line.clear() *)
clear(ln) == <<>>

NextIndexStuck(index) == index

(* line 110: line_index += 1 *)
NextIndex(index) == index + 1

----------------------------------------------------------------------------
(* _format_time and _write_line *)

DigitChar == <<"0", "1", "2", "3", "4", "5", "6", "7", "8", "9">>

RECURSIVE Decimal(_)
(* str(n) for n >= 0: the decimal digits, most significant first *)
Decimal(n) ==
    IF n < 10 THEN <<DigitChar[n + 1]>>
    ELSE Append(Decimal(n \div 10), DigitChar[(n % 10) + 1])

RECURSIVE Pad(_, _)
(* the format spec 0w: zero-pad on the left to at least w characters *)
Pad(s, w) == IF Len(s) >= w THEN s ELSE Pad(<<"0">> \o s, w)

format_timeMinutesUnwrapped(millis) ==
    LET h == millis \div (3600 * 1000)
        m == millis \div (60 * 1000)
        s == (millis \div 1000) % 60
        ms == millis % 1000
    IN  Pad(Decimal(h), 2) \o <<":">> \o Pad(Decimal(m), 2) \o <<":">>
        \o Pad(Decimal(s), 2) \o <<",">> \o Pad(Decimal(ms), 3)

(* lines 123-128 *)
format_time(millis) ==
    LET h == millis \div (3600 * 1000)
        m == (millis \div (60 * 1000)) % 60
        s == (millis \div 1000) % 60
        ms == millis % 1000
    IN  Pad(Decimal(h), 2) \o <<":">> \o Pad(Decimal(m), 2) \o <<":">>
        \o Pad(Decimal(s), 2) \o <<",">> \o Pad(Decimal(ms), 3)

(* The three write() calls of _write_line append one block to the document. *)
write_line(doc, ln, index, start_time, end_time) ==
    Append(doc, [index |-> Decimal(index),
                 start |-> format_time(start_time),
                 end   |-> format_time(end_time),
                 text  |-> ln])

----------------------------------------------------------------------------
(* Recognition results the remote engine may return *)

Dur == 50                \* duration of every word, in ms
FirstStarts == {0, 300}  \* start of the first word, in ms
SmallGaps == {100, LINE_INTERVAL - 1}
BigGap == LINE_INTERVAL

(* a Duration as the client library exposes it *)
Duration(ms) == [seconds |-> ms \div 1000, microseconds |-> (ms % 1000) * 1000]

WordStart(i, first, small, big) ==
    first + (i - 1) * (Dur + small)
          + Cardinality({j \in big : j < i}) * (BigGap - small)

(* n words; `big' is the set of words followed by a pause of BigGap *)
WordStream(n, first, small, big) ==
    [i \in 1..n |->
        [word |-> ToString(i),
         start_time |-> Duration(WordStart(i, first, small, big)),
         end_time |-> Duration(WordStart(i, first, small, big) + Dur)]]

Pauses(n) == {b \in SUBSET (1..(n - 1)) : Cardinality(b) <= MaxBigGaps}

Alternative(ws) == [words |-> ws]

Result(ws) == [alternatives |-> <<Alternative(ws)>>]

(* how the engine groups the words into recognition results *)
Cuts(n) == {"one", "head", "half"} \cup (IF n = 0 THEN {"none"} ELSE {})

Results(ws, cut) ==
    CASE cut = "none" -> <<>>
      [] cut = "one"  -> <<Result(ws)>>
      [] cut = "head" -> <<Result(<<>>), Result(ws)>>
      [] cut = "half" -> <<Result(SubSeq(ws, 1, Len(ws) \div 2)),
                           Result(SubSeq(ws, Len(ws) \div 2 + 1, Len(ws)))>>

Words(res) == res.alternatives[1].words

RECURSIVE Advance(_, _, _)
(* the next (result, word) position of the nested for-loops at or after <<r, w>> *)
Advance(results, r, w) ==
    IF r > Len(results) THEN <<r, 1>>
    ELSE IF w > Len(Words(results[r])) THEN Advance(results, r + 1, 1)
    ELSE <<r, w>>

(* seconds * 10**3 + microseconds // 10**3 *)
Millis(d) == d.seconds * 1000 + d.microseconds \div 1000

NoOperation == [state |-> "none", results |-> <<>>]

Running == [state |-> "running", results |-> <<>>]

Succeeded(r) == [state |-> "succeeded", results |-> r]

Failed == [state |-> "failed", results |-> <<>>]

ProgressPercents == {40, 100}

(* the second call before it is made, and _format_time before it is applied *)
NoCall == [pc |-> "idle", source |-> NoPath, target |-> NoPath, blob_name |-> ""]

NoFormat == [millis |-> 0, text |-> <<>>]

----------------------------------------------------------------------------
Init ==
    /\ speech_client = Unset
    /\ storage_client = Unset
    /\ storage_bucket = Unset
    /\ start_result = "none"
    /\ pc = "idle"
    /\ error = "none"
    /\ source_audio_path = NoPath
    /\ target_srt_path = NoPath
    /\ blob_name = ""
    /\ total_bytes = 0
    /\ bytes_uploaded = 0
    /\ finished = FALSE
    /\ operation = NoOperation
    /\ polls = 0
    /\ line = <<>>
    /\ line_index = 0
    /\ line_start_time = 0
    /\ line_end_time = 0
    /\ res_i = 0
    /\ word_i = 0
    /\ blobs = {}
    /\ files = [p \in TargetPaths |-> NoFile]
    /\ trace = <<>>
    /\ target_before = NoFile
    /\ other = NoCall
    /\ fmt = NoFormat

----------------------------------------------------------------------------
(* start(credential_path) *)

Start(credential_path) ==
    /\ pc = "idle"
    /\ IF ~CredentialExists(credential_path)
       THEN /\ start_result' = "FileNotFoundError"
            /\ UNCHANGED globals
       ELSE /\ start_result' = "ok"
            /\ speech_client' = credential_path
            /\ storage_client' = credential_path
            /\ storage_bucket' = credential_path
    /\ UNCHANGED <<pc, error, source_audio_path, target_srt_path, blob_name,
                   uploadVars, operation, polls, segVars, blobs, files, trace,
                   target_before, other, fmt>>

----------------------------------------------------------------------------
(* transcribe(source_audio_path, target_srt_path, progress_callback) *)

Raise(e) == pc' = "failed" /\ error' = e

Goto(l) == pc' = l /\ UNCHANGED error

Call(src, tgt) ==
    /\ pc = "idle"
    /\ source_audio_path' = src
    /\ target_srt_path' = tgt
    /\ target_before' = files[tgt]
    /\ Goto("setup")
    /\ UNCHANGED <<globals, ambient, blob_name, uploadVars, operation,
                   polls, segVars, blobs, files, trace>>

SetupUnchecked ==
    /\ pc = "setup"
    /\ blob_name' = basename(source_audio_path)
    /\ Goto("open_source")
    /\ UNCHANGED <<globals, ambient, target_before, source_audio_path,
                   target_srt_path,
                   uploadVars, operation, polls, segVars, blobs, files, trace>>

(* lines 62-68: blob name, blob handle, upload object, authorized session;  *)
(* reading an unbound module global raises NameError                        *)
Setup ==
    /\ pc = "setup"
    /\ blob_name' = basename(source_audio_path)
    /\ IF storage_bucket = Unset \/ storage_client = Unset
       THEN Raise("NameError")
       ELSE Goto("open_source")
    /\ UNCHANGED <<globals, ambient, target_before, source_audio_path,
                   target_srt_path,
                   uploadVars, operation, polls, segVars, blobs, files, trace>>

OpenSourceUnchecked ==
    /\ pc = "open_source"
    /\ Goto("initiate")
    /\ UNCHANGED <<globals, ambient, target_before, source_audio_path,
                   target_srt_path,
                   blob_name, uploadVars, operation, polls, segVars, blobs,
                   files, trace>>

(* line 69: open(source_audio_path, 'rb') *)
OpenSource ==
    /\ pc = "open_source"
    /\ IF ~SourceFile(source_audio_path).exists
       THEN Raise("FileNotFoundError")
       ELSE Goto("initiate")
    /\ UNCHANGED <<globals, ambient, target_before, source_audio_path,
                   target_srt_path,
                   blob_name, uploadVars, operation, polls, segVars, blobs,
                   files, trace>>

(* lines 70-71: resumable.initiate(...); progress_callback('upload', 0) *)
Initiate ==
    /\ pc = "initiate"
    /\ total_bytes' = SourceFile(source_audio_path).size
    /\ bytes_uploaded' = 0
    /\ finished' = FALSE
    /\ trace' = progress_callback(Append(trace, Net("initiate")),
                                  "upload", Frac(0, 1))
    /\ Goto("upload_loop")
    /\ UNCHANGED <<globals, ambient, target_before, source_audio_path,
                   target_srt_path,
                   blob_name, operation, polls, segVars, blobs, files>>

(* lines 72-75, one iteration whose chunk is accepted by the server *)
TransmitChunk ==
    /\ pc = "upload_loop"
    /\ ~finished
    /\ LET sent == Min(bytes_uploaded + CHUNK_SIZE, total_bytes)
           fin == sent = total_bytes
       IN  /\ bytes_uploaded' = sent
           /\ finished' = fin
           /\ blobs' = IF fin THEN blobs \cup {blob_name} ELSE blobs
           /\ IF total_bytes = 0
              THEN /\ trace' = Append(trace, Net("transmit_next_chunk"))
                   /\ Raise("ZeroDivisionError")
              ELSE /\ trace' = progress_callback(
                                  Append(trace, Net("transmit_next_chunk")),
                                  "upload", UploadFraction(sent, total_bytes))
                   /\ Goto("upload_loop")
    /\ UNCHANGED <<globals, ambient, target_before, source_audio_path,
                   target_srt_path,
                   blob_name, total_bytes, operation, polls, segVars, files>>

TransmitChunkFailsRetry ==
    /\ pc = "upload_loop"
    /\ ~finished
    /\ trace' = Append(trace, NetFail("transmit_next_chunk"))
    /\ Goto("upload_loop")
    /\ UNCHANGED <<globals, ambient, target_before, source_audio_path,
                   target_srt_path,
                   blob_name, uploadVars, operation, polls, segVars, blobs,
                   files>>

(* line 73 raising: the transport fails while transmitting the chunk *)
TransmitChunkFails ==
    /\ pc = "upload_loop"
    /\ ~finished
    /\ trace' = Append(trace, NetFail("transmit_next_chunk"))
    /\ Raise("TransferFailure")
    /\ UNCHANGED <<globals, ambient, target_before, source_audio_path,
                   target_srt_path,
                   blob_name, uploadVars, operation, polls, segVars, blobs,
                   files>>

UploadFinishEarly ==
    /\ pc = "upload_loop"
    /\ trace' = progress_callback(trace, "upload", Frac(1, 1))
    /\ Goto("wave_open")
    /\ UNCHANGED <<globals, ambient, target_before, source_audio_path,
                   target_srt_path, blob_name, uploadVars, operation, polls,
                   segVars, blobs, files>>

UploadFinishSilent ==
    /\ pc = "upload_loop"
    /\ finished
    /\ Goto("wave_open")
    /\ UNCHANGED <<globals, ambient, target_before, source_audio_path,
                   target_srt_path,
                   blob_name, uploadVars, operation, polls, segVars, blobs,
                   files, trace>>

(* line 76, reached when the while condition sees resumable.finished *)
UploadFinish ==
    /\ pc = "upload_loop"
    /\ finished
    /\ trace' = progress_callback(trace, "upload", Frac(1, 1))
    /\ Goto("wave_open")
    /\ UNCHANGED <<globals, ambient, target_before, source_audio_path,
                   target_srt_path,
                   blob_name, uploadVars, operation, polls, segVars, blobs,
                   files>>

(* lines 78-79: wave.open(...).getframerate() *)
WaveOpen ==
    /\ pc = "wave_open"
    /\ IF ~SourceFile(source_audio_path).wav
       THEN Raise("wave.Error")
       ELSE Goto("recognize")
    /\ UNCHANGED <<globals, ambient, target_before, source_audio_path,
                   target_srt_path,
                   blob_name, uploadVars, operation, polls, segVars, blobs,
                   files, trace>>

(* lines 80-87: _speech_client.long_running_recognize(...) *)
Recognize ==
    /\ pc = "recognize"
    /\ IF speech_client = Unset
       THEN /\ Raise("NameError")
            /\ UNCHANGED <<operation, trace>>
       ELSE /\ operation' = Running
            /\ trace' = Append(trace, Net("long_running_recognize"))
            /\ Goto("poll")
    /\ UNCHANGED <<globals, ambient, target_before, source_audio_path,
                   target_srt_path,
                   blob_name, uploadVars, polls, segVars, blobs, files>>

(* lines 88-91, operation.done() answering False: report, sleep, poll again *)
PollNotDone(progress_percent) ==
    /\ pc = "poll"
    /\ polls < MaxPolls
    /\ polls' = polls + 1
    /\ trace' = progress_callback(Append(trace, Net("done")),
                                  "transcribe", TranscribeFraction(progress_percent))
    /\ Goto("poll")
    /\ UNCHANGED <<globals, ambient, target_before, source_audio_path,
                   target_srt_path,
                   blob_name, uploadVars, operation, segVars, blobs, files>>

PollDoneIgnored(maxWords, mayFail) ==
    /\ pc = "poll"
    /\ \/ \E n \in 0..maxWords, first \in FirstStarts, small \in SmallGaps :
             \E big \in Pauses(n), cut \in Cuts(n) :
                operation' =
                    Succeeded(Results(WordStream(n, first, small, big), cut))
       \/ mayFail /\ operation' = Failed
    /\ Goto("poll")
    /\ UNCHANGED <<globals, ambient, target_before, source_audio_path,
                   target_srt_path, blob_name, uploadVars, polls, segVars,
                   blobs, files, trace>>

PollDoneRaises(maxWords, mayFail) ==
    /\ pc = "poll"
    /\ trace' = Append(trace, Net("done"))
    /\ \/ /\ \E n \in 0..maxWords, first \in FirstStarts, small \in SmallGaps :
                \E big \in Pauses(n), cut \in Cuts(n) :
                   operation' =
                       Succeeded(Results(WordStream(n, first, small, big), cut))
          /\ Goto("delete")
       \/ /\ mayFail
          /\ operation' = Failed
          /\ Raise("RecognitionFailure")
    /\ UNCHANGED <<globals, ambient, target_before, source_audio_path,
                   target_srt_path, blob_name, uploadVars, polls, segVars,
                   blobs, files>>

(* line 88, operation.done() answering True: the handle now holds the       *)
(* outcome of the remote operation, a response of at most maxWords words   *)
(* or, when mayFail, an error                                              *)
PollDone(maxWords, mayFail) ==
    /\ pc = "poll"
    /\ \/ \E n \in 0..maxWords, first \in FirstStarts, small \in SmallGaps :
             \E big \in Pauses(n), cut \in Cuts(n) :
                operation' =
                    Succeeded(Results(WordStream(n, first, small, big), cut))
       \/ mayFail /\ operation' = Failed
    /\ trace' = Append(trace, Net("done"))
    /\ Goto("delete")
    /\ UNCHANGED <<globals, ambient, target_before, source_audio_path,
                   target_srt_path,
                   blob_name, uploadVars, polls, segVars, blobs, files>>

(* line 93: blob.delete(); deleting an object that is not in the bucket     *)
(* raises NotFound                                                         *)
DeleteBlob ==
    /\ pc = "delete"
    /\ trace' = Append(trace, Net("delete"))
    /\ IF blob_name \in blobs
       THEN /\ blobs' = delete(blobs, blob_name)
            /\ Goto("open_target")
       ELSE /\ Raise("NotFound")
            /\ UNCHANGED blobs
    /\ UNCHANGED <<globals, ambient, target_before, source_audio_path,
                   target_srt_path,
                   blob_name, uploadVars, operation, polls, segVars, files>>

(* lines 95-98: segmenter state, then open(target_srt_path, 'w') *)
OpenTarget ==
    /\ pc = "open_target"
    /\ line' = <<>>
    /\ line_index' = 1
    /\ line_start_time' = 0
    /\ line_end_time' = 0
    /\ UNCHANGED <<res_i, word_i>>
    /\ IF ~TargetWritable(target_srt_path)
       THEN /\ Raise("IOFailure")
            /\ UNCHANGED <<files, trace>>
       ELSE /\ files' = [files EXCEPT ![target_srt_path] = File(<<>>)]
            /\ trace' = Append(trace, Io("open"))
            /\ Goto("result")
    /\ UNCHANGED <<globals, ambient, target_before, source_audio_path,
                   target_srt_path,
                   blob_name, uploadVars, operation, polls, blobs>>

(* line 99: operation.result() returns the response or raises the error *)
GetResult ==
    /\ pc = "result"
    /\ trace' = Append(trace, Op("result"))
    /\ IF operation.state = "failed"
       THEN /\ Raise("RecognitionFailure")
            /\ UNCHANGED <<res_i, word_i>>
       ELSE /\ res_i' = Advance(operation.results, 1, 1)[1]
            /\ word_i' = Advance(operation.results, 1, 1)[2]
            /\ Goto("words")
    /\ UNCHANGED <<globals, ambient, target_before, source_audio_path,
                   target_srt_path,
                   blob_name, uploadVars, operation, polls, line, line_index,
                   line_start_time, line_end_time, blobs, files>>

(* lines 100-113: one iteration of the inner for-loop *)
Word ==
    /\ pc = "words"
    /\ res_i <= Len(operation.results)
    /\ LET word_data == Words(operation.results[res_i])[word_i]
           word_start_time == Millis(word_data.start_time)
           word_end_time == Millis(word_data.end_time)
           flush == FlushNeeded(line, word_start_time, line_end_time)
           next == Advance(operation.results, res_i, word_i + 1)
       IN  /\ IF flush
              THEN /\ files' = [files EXCEPT ![target_srt_path].doc =
                                   write_line(@, line, line_index,
                                              line_start_time, line_end_time)]
                   /\ trace' = Append(trace, Io("write"))
                   /\ line' = Append(clear(line), word_data.word)
                   /\ line_index' = NextIndex(line_index)
                   /\ line_start_time' = word_start_time
              ELSE /\ line' = Append(line, word_data.word)
                   /\ UNCHANGED <<files, trace, line_index, line_start_time>>
           /\ line_end_time' = word_end_time
           /\ res_i' = next[1]
           /\ word_i' = next[2]
    /\ Goto("words")
    /\ UNCHANGED <<globals, ambient, target_before, source_audio_path,
                   target_srt_path,
                   blob_name, uploadVars, operation, polls, blobs>>

(* lines 114-116: the loops are exhausted; write the pending line, close *)
FinalFlush ==
    /\ pc = "words"
    /\ res_i > Len(operation.results)
    /\ IF line # <<>>
       THEN /\ files' = [files EXCEPT ![target_srt_path].doc =
                            write_line(@, line, line_index,
                                       line_start_time, line_end_time)]
            /\ trace' = Append(trace, Io("write"))
       ELSE UNCHANGED <<files, trace>>
    /\ Goto("done")
    /\ UNCHANGED <<globals, ambient, target_before, source_audio_path,
                   target_srt_path,
                   blob_name, uploadVars, operation, polls, segVars, blobs>>

(* the call returns or its exception reaches the caller; locals are gone *)
Return ==
    /\ pc \in {"done", "failed"}
    /\ pc' = "idle"
    /\ error' = "none"
    /\ source_audio_path' = NoPath
    /\ target_srt_path' = NoPath
    /\ blob_name' = ""
    /\ total_bytes' = 0
    /\ bytes_uploaded' = 0
    /\ finished' = FALSE
    /\ operation' = NoOperation
    /\ polls' = 0
    /\ line' = <<>>
    /\ line_index' = 0
    /\ line_start_time' = 0
    /\ line_end_time' = 0
    /\ res_i' = 0
    /\ word_i' = 0
    /\ trace' = <<>>
    /\ target_before' = NoFile
    /\ UNCHANGED <<globals, ambient, blobs, files>>

----------------------------------------------------------------------------
(* The pipeline: any sequence of start and transcribe calls *)

Next ==
    \/ \E c \in CredentialPaths : Start(c)
    \/ \E src \in SourcePaths, tgt \in TargetPaths : Call(src, tgt)
    \/ Setup
    \/ OpenSource
    \/ Initiate
    \/ TransmitChunk
    \/ TransmitChunkFails
    \/ UploadFinish
    \/ WaveOpen
    \/ Recognize
    \/ \E p \in ProgressPercents : PollNotDone(p)
    \/ PollDone(MaxWords, TRUE)
    \/ DeleteBlob
    \/ OpenTarget
    \/ GetResult
    \/ Word
    \/ FinalFlush
    \/ Return

Spec == Init /\ [][Next]_vars

(* The segmenter: one transcribe call of a well-formed source, with long   *)
(* word streams                                                            *)

SegSource == <<"b", "x.wav">>

SegTarget == <<"out", "a.srt">>

NextSeg ==
    \/ Start("cred.json")
    \/ Call(SegSource, SegTarget)
    \/ Setup
    \/ OpenSource
    \/ Initiate
    \/ TransmitChunk
    \/ UploadFinish
    \/ WaveOpen
    \/ Recognize
    \/ PollDone(MaxSegWords, FALSE)
    \/ DeleteBlob
    \/ OpenTarget
    \/ GetResult
    \/ Word
    \/ FinalFlush

SpecSeg == Init /\ [][NextSeg]_vars

----------------------------------------------------------------------------
(* A second transcribe call on another thread, followed through what it    *)
(* does to the bucket: same code, one step per remote effect.              *)

OtherStep(l) == other' = [other EXCEPT !.pc = l]

OtherFrame ==
    UNCHANGED <<globals, start_result, fmt, target_before, pc, error,
                source_audio_path, target_srt_path, blob_name, uploadVars,
                operation, polls, segVars, files, trace>>

(* lines 62-68 of the second call *)
OtherCall(src, tgt) ==
    /\ other.pc = "idle"
    /\ storage_bucket # Unset
    /\ other' = [pc |-> "upload", source |-> src, target |-> tgt,
                 blob_name |-> basename(src)]
    /\ UNCHANGED blobs
    /\ OtherFrame

(* lines 69-76 of the second call: the upload finishes, the blob exists *)
OtherUpload ==
    /\ other.pc = "upload"
    /\ blobs' = blobs \cup {other.blob_name}
    /\ OtherStep("recognize")
    /\ OtherFrame

(* lines 78-87 of the second call *)
OtherRecognize ==
    /\ other.pc = "recognize"
    /\ OtherStep("poll")
    /\ UNCHANGED blobs
    /\ OtherFrame

(* line 88 of the second call: its operation is done *)
OtherPollDone ==
    /\ other.pc = "poll"
    /\ OtherStep("delete")
    /\ UNCHANGED blobs
    /\ OtherFrame

(* line 93 of the second call *)
OtherDelete ==
    /\ other.pc = "delete"
    /\ IF other.blob_name \in blobs
       THEN /\ blobs' = delete(blobs, other.blob_name)
            /\ OtherStep("done")
       ELSE /\ OtherStep("failed")
            /\ UNCHANGED blobs
    /\ OtherFrame

(* the second call returns or raises *)
OtherReturn ==
    /\ other.pc \in {"done", "failed"}
    /\ other' = NoCall
    /\ UNCHANGED blobs
    /\ OtherFrame

ConcSources == {<<"a", "x.wav">>, <<"b", "x.wav">>}

ConcTarget == <<"out", "a.srt">>

OtherTarget == <<"out", "b.srt">>

NextConc ==
    \/ Start("cred.json")
    \/ \E src \in ConcSources : Call(src, ConcTarget)
    \/ Setup
    \/ OpenSource
    \/ Initiate
    \/ TransmitChunk
    \/ UploadFinish
    \/ WaveOpen
    \/ Recognize
    \/ \E p \in ProgressPercents : PollNotDone(p)
    \/ PollDone(0, TRUE)
    \/ DeleteBlob
    \/ OpenTarget
    \/ GetResult
    \/ FinalFlush
    \/ Return
    \/ \E src \in ConcSources : OtherCall(src, OtherTarget)
    \/ OtherUpload
    \/ OtherRecognize
    \/ OtherPollDone
    \/ OtherDelete
    \/ OtherReturn

SpecConc == Init /\ [][NextConc]_vars

----------------------------------------------------------------------------
(* The pipeline under its scheduling: a call that has started keeps        *)
(* running its statements, each chunk transmission returns or raises, and  *)
(* the remote operation eventually answers done() with True. Nothing       *)
(* obliges done() to answer False, the caller to call or to call again.    *)

Step ==
    \/ Setup
    \/ OpenSource
    \/ Initiate
    \/ TransmitChunk
    \/ TransmitChunkFails
    \/ UploadFinish
    \/ WaveOpen
    \/ Recognize
    \/ PollDone(MaxWords, TRUE)
    \/ DeleteBlob
    \/ OpenTarget
    \/ GetResult
    \/ Word
    \/ FinalFlush

SpecLive == Init /\ [][Next]_vars /\ WF_vars(Step)

----------------------------------------------------------------------------
(* _format_time on its own, applied to times of up to MaxHours hours *)

FormatInputs ==
    {h * 3600000 + m * 60000 + s * 1000 + f :
        h \in {0, 1, MaxHours - 1, MaxHours}, m \in {0, 1, 59},
        s \in {0, 1, 59}, f \in {0, 1, 999}}

Format(millis) ==
    /\ fmt' = [millis |-> millis, text |-> format_time(millis)]
    /\ UNCHANGED <<globals, start_result, other, target_before, pc, error,
                   source_audio_path, target_srt_path, blob_name, uploadVars,
                   operation, polls, segVars, blobs, files, trace>>

NextFmt == \E millis \in FormatInputs : Format(millis)

SpecFmt == Init /\ [][NextFmt]_vars

----------------------------------------------------------------------------
(* Observations on the log of one call *)

IsCb(e, phase) == e.kind = "cb" /\ e.name = phase

Events == SelectSeq(trace, LAMBDA e : e.kind = "cb")

UploadEvents == SelectSeq(trace, LAMBDA e : IsCb(e, "upload"))

TranscribeEvents == SelectSeq(trace, LAMBDA e : IsCb(e, "transcribe"))

Count(e) == Cardinality({i \in 1..Len(trace) : trace[i] = e})

NoRemoteCall == \A i \in 1..Len(trace) : trace[i].kind \notin {"net", "netfail"}

NoEvent == \A i \in 1..Len(trace) : trace[i].kind # "cb"

(* the upload loop has been left with the upload finished *)
UploadLeft == finished /\ pc # "upload_loop" /\ total_bytes > 0

(* number of chunks of a source of total_bytes bytes *)
NumChunks == (total_bytes + CHUNK_SIZE - 1) \div CHUNK_SIZE

(* polling has stopped with the operation done and the call still running *)
PollLeft == pc \in {"delete", "open_target", "result", "words", "done"}

DigitValue(c) == CHOOSE d \in 0..9 : DigitChar[d + 1] = c

RECURSIVE ParseDecimal(_)
ParseDecimal(s) ==
    IF s = <<>> THEN 0
    ELSE ParseDecimal(SubSeq(s, 1, Len(s) - 1)) * 10 + DigitValue(s[Len(s)])

----------------------------------------------------------------------------
(* C1 as stated: once the upload loop is left, the 'upload' events are 0,  *)
(* then bytes_uploaded/total_bytes after each chunk, the last one being    *)
(* 1.0, and no 'upload' event follows an 'upload' event of fraction 1.0.   *)
C1_NoUploadEventAfterOne ==
    UploadLeft =>
        /\ IsZero(UploadEvents[1].arg)
        /\ IsOne(UploadEvents[Len(UploadEvents)].arg)
        /\ \A i \in 1..(Len(UploadEvents) - 1) : ~IsOne(UploadEvents[i].arg)

(* C1, amended: the 'upload' events of a call whose upload finishes are    *)
(* exactly: 0 before the first chunk, bytes_uploaded/total_bytes right     *)
(* after each transmitted chunk (1.0 after the last chunk), and one        *)
(* closing event of fraction 1.0; nothing follows the closing event.       *)
C1_UploadProgress ==
    /\ \A i \in 1..Len(trace) :
          trace[i] = Net("transmit_next_chunk") /\ total_bytes > 0 =>
              LET k == Cardinality({j \in 1..i :
                            trace[j] = Net("transmit_next_chunk")})
              IN  /\ i < Len(trace)
                  /\ trace[i + 1] =
                        Cb("upload", <<Min(k * CHUNK_SIZE, total_bytes),
                                       total_bytes>>)
                  /\ k = 1 => /\ i > 1
                              /\ IsCb(trace[i - 1], "upload")
                              /\ IsZero(trace[i - 1].arg)
    /\ UploadLeft =>
          /\ Len(UploadEvents) = NumChunks + 2
          /\ IsZero(UploadEvents[1].arg)
          /\ IsOne(UploadEvents[NumChunks + 1].arg)
          /\ IsOne(UploadEvents[NumChunks + 2].arg)
          /\ \A i \in 1..NumChunks : ~IsOne(UploadEvents[i].arg)

C1_Witness ==
    /\ UploadLeft
    /\ pc = "done"
    /\ NumChunks = MaxChunks
    /\ Len(UploadEvents) = MaxChunks + 2

(* C2 as stated: when polling has stopped with the operation done, the     *)
(* 'transcribe' events delivered end with an event of fraction 1, also     *)
(* when done() was true at the first poll.                                 *)
C2_TranscribeEndsAtOne ==
    PollLeft =>
        /\ TranscribeEvents # <<>>
        /\ IsOne(TranscribeEvents[Len(TranscribeEvents)].arg)

(* C3: every callback invocation has phase 'upload' or 'transcribe' and a  *)
(* fraction in [0,1], every 'upload' event precedes every 'transcribe'     *)
(* event, and no event is delivered once polling has stopped: during       *)
(* deletion, segmentation and writing, after a failure, after the return.  *)
C3_CallbackContract ==
    /\ [](/\ \A i \in 1..Len(trace) :
                trace[i].kind = "cb" =>
                    /\ trace[i].name \in {"upload", "transcribe"}
                    /\ InUnit(trace[i].arg)
          /\ \A i, j \in 1..Len(trace) :
                IsCb(trace[i], "transcribe") /\ IsCb(trace[j], "upload")
                    => j < i)
    /\ [][/\ (PollLeft \/ pc = "failed") /\ pc' # "idle" => Events' = Events
          /\ pc = "idle" => Events' = <<>>
          /\ pc' # "idle" /\ Len(Events') >= Len(Events)
                => SubSeq(Events', 1, Len(Events)) = Events]_vars

C3_Witness ==
    /\ pc = "done"
    /\ Len(UploadEvents) = MaxChunks + 2
    /\ Len(TranscribeEvents) = MaxPolls
    /\ files[target_srt_path].doc # <<>>

(* C4 as stated: the blob is deleted exactly once, after the result has    *)
(* been retrieved with operation.result() and before any line is written.  *)
C4_DeleteAfterResult ==
    /\ Count(Net("delete")) <= 1
    /\ \A i \in 1..Len(trace) :
          trace[i] = Net("delete") =>
              /\ \E j \in 1..(i - 1) : trace[j] = Op("result")
              /\ \A j \in 1..(i - 1) : trace[j] # Io("write")

(* C4, amended: once a poll has found the operation done (succeeded or     *)
(* failed), the blob is deleted exactly once, right after that poll:       *)
(* before the target is opened, before operation.result() is called and    *)
(* before any line is written; a target that cannot be opened leaves the   *)
(* blob already deleted.                                                   *)
C4_DeleteOnce ==
    /\ Count(Net("delete")) <= 1
    /\ \A i \in 1..Len(trace) :
          trace[i] = Net("delete") =>
              /\ i > 1 /\ trace[i - 1] = Net("done")
              /\ operation.state \in {"succeeded", "failed"}
              /\ \A j \in 1..(i - 1) : trace[j].kind \notin {"io", "op"}
    /\ \A i \in 1..Len(trace) :
          trace[i].kind \in {"io", "op"} =>
              \E j \in 1..(i - 1) : trace[j] = Net("delete")
    /\ (pc \in {"open_target", "result", "words", "done"}
            \/ (pc = "failed" /\ error \in {"IOFailure", "RecognitionFailure"}))
          => /\ Count(Net("delete")) = 1
             /\ blob_name \notin blobs

C4_Witness ==
    /\ pc = "failed"
    /\ error = "IOFailure"
    /\ Count(Net("delete")) = 1
    /\ blob_name \notin blobs

(* C5: when the source audio path does not exist, the call fails before    *)
(* any remote call (initiate, recognize, delete) and before any callback   *)
(* invocation.                                                             *)
C5_MissingSourceFailsFirst ==
    (source_audio_path # NoPath /\ ~SourceFile(source_audio_path).exists) =>
        /\ NoRemoteCall
        /\ NoEvent
        /\ pc \in {"setup", "open_source", "failed"}
        /\ pc = "failed" => error \in {"NameError", "FileNotFoundError"}

C5_Witness ==
    /\ source_audio_path # NoPath
    /\ ~SourceFile(source_audio_path).exists
    /\ pc = "failed"
    /\ error = "FileNotFoundError"
    /\ storage_bucket # Unset

(* C6 as stated: when the source exists but is not a readable WAV file or  *)
(* is empty, the call fails before any remote call is made and creates no  *)
(* blob.                                                                   *)
C6_InvalidInputBeforeRemote ==
    (/\ source_audio_path # NoPath
     /\ SourceFile(source_audio_path).exists
     /\ (~SourceFile(source_audio_path).wav
            \/ SourceFile(source_audio_path).size = 0)) =>
        /\ NoRemoteCall
        /\ pc \in {"setup", "open_source", "initiate", "failed"}

(* C7: a failed chunk transmission ends the call at once: nothing follows  *)
(* it in the log (no chunk, no event, no recognition request, no           *)
(* deletion), and the call has not deleted the blob.                       *)
C7_TransferFailureAborts ==
    \A i \in 1..Len(trace) :
        trace[i].kind = "netfail" =>
            /\ i = Len(trace)
            /\ pc = "failed"
            /\ error = "TransferFailure"
            /\ Count(Net("delete")) = 0
            /\ Count(Net("long_running_recognize")) = 0
            /\ Count(NetFail("transmit_next_chunk")) = 1

C7_Witness ==
    /\ pc = "failed"
    /\ error = "TransferFailure"
    /\ Count(Net("transmit_next_chunk")) = MaxChunks - 1
    /\ trace[Len(trace)] = NetFail("transmit_next_chunk")

(* C8 as stated: after a start call failed for a missing credential file,  *)
(* there is no client state and every transcribe call fails fast, also     *)
(* when an earlier start call had succeeded.                               *)
C8_FailedStartLeavesNoClient ==
    start_result = "FileNotFoundError" =>
        /\ speech_client = Unset
        /\ storage_client = Unset
        /\ storage_bucket = Unset
        /\ NoRemoteCall
        /\ NoEvent
        /\ pc \in {"idle", "setup", "failed"}

(* C8, amended: a start call that fails for a missing credential file      *)
(* establishes no client state and leaves the client state as it was; as   *)
(* long as no start call has succeeded, every transcribe call fails fast,  *)
(* before any remote call and before any progress event.                   *)
C8_FailedStartKeepsClients ==
    /\ []((speech_client = Unset \/ storage_client = Unset
                \/ storage_bucket = Unset) =>
            /\ speech_client = Unset
            /\ storage_client = Unset
            /\ storage_bucket = Unset
            /\ start_result # "ok"
            /\ NoRemoteCall
            /\ NoEvent
            /\ pc \in {"idle", "setup", "failed"}
            /\ pc = "failed" => error = "NameError")
    /\ [][(pc = "idle" /\ pc' = "idle" /\ start_result' = "FileNotFoundError")
            => UNCHANGED globals]_vars

C8_Witness ==
    /\ start_result = "FileNotFoundError"
    /\ storage_bucket = Unset
    /\ pc = "failed"
    /\ error = "NameError"

----------------------------------------------------------------------------
(* The written document and the word stream of the segmenter runs *)

Document == files[SegTarget].doc

Opened == files[SegTarget].exists

RECURSIVE Flatten(_)
Flatten(results) ==
    IF results = <<>> THEN <<>>
    ELSE Words(results[1]) \o Flatten(Tail(results))

InputWords == Flatten(operation.results)

(* C9: the indices of the written lines, in write order, are 1, 2, ..., N; *)
(* an empty word stream writes no line and raises no error.                *)
C9_IndicesContiguous ==
    /\ \A k \in 1..Len(Document) : ParseDecimal(Document[k].index) = k
    /\ Count(Io("write")) = Len(Document)
    /\ (pc = "done" /\ InputWords # <<>>) => Len(Document) >= 1
    /\ (operation.state = "succeeded" /\ InputWords = <<>>) =>
          /\ pc # "failed"
          /\ Document = <<>>
          /\ pc = "done" => Opened

C9_Witness ==
    /\ pc = "done"
    /\ Len(InputWords) = MaxSegWords
    /\ Len(Document) >= 3
    /\ ParseDecimal(Document[Len(Document)].index) = Len(Document)

(* C10: every written line holds between 1 and 12 words and the pending    *)
(* line never holds more than 12 words, whatever mix of count-triggered    *)
(* and gap-triggered flushes produced the lines.                           *)
C10_LineLength ==
    /\ Len(line) <= MAX_NUM_WORDS_IN_LINE
    /\ \A k \in 1..Len(Document) :
          /\ Len(Document[k].text) >= 1
          /\ Len(Document[k].text) <= MAX_NUM_WORDS_IN_LINE

C10_Witness ==
    /\ pc = "done"
    /\ Len(Document) >= 3
    /\ \E k \in 1..Len(Document) :
          Len(Document[k].text) = MAX_NUM_WORDS_IN_LINE
    /\ \E k \in 1..(Len(Document) - 1) :
          Len(Document[k].text) < MAX_NUM_WORDS_IN_LINE

----------------------------------------------------------------------------
(* Reading the written document back *)

(* the milliseconds an HH:MM:SS,mmm string stands for *)
ParseTime(t) ==
    LET n == Len(t)
    IN  ParseDecimal(SubSeq(t, 1, n - 10)) * 3600000
        + ParseDecimal(SubSeq(t, n - 8, n - 7)) * 60000
        + ParseDecimal(SubSeq(t, n - 5, n - 4)) * 1000
        + ParseDecimal(SubSeq(t, n - 2, n))

RECURSIVE WordsBefore(_)
(* number of words in the written lines before line k *)
WordsBefore(k) ==
    IF k <= 1 THEN 0 ELSE WordsBefore(k - 1) + Len(Document[k - 1].text)

(* the input word that opens written line k *)
FirstWordOf(k) == InputWords[WordsBefore(k) + 1]

(* the pause between input word i and input word i + 1 *)
Gap(i) == Millis(InputWords[i + 1].start_time) - Millis(InputWords[i].end_time)

(* the word the inner loop is about to process *)
IncomingWord == Words(operation.results[res_i])[word_i]

AtWord == pc = "words" /\ res_i <= Len(operation.results)

(* C11 as stated: every written line, the first one included, starts at    *)
(* the start time of its first word.                                       *)
C11_LineStartsAtFirstWord ==
    \A k \in 1..Len(Document) :
        ParseTime(Document[k].start) = Millis(FirstWordOf(k).start_time)

(* C12: with 1 to 11 pending words, an incoming word that starts exactly   *)
(* LINE_INTERVAL after the end of the previous word opens a new line, and  *)
(* one that starts LINE_INTERVAL - 1 after it joins the pending line.      *)
C12_GapThreshold ==
    [][(AtWord /\ line # <<>> /\ Len(line) < MAX_NUM_WORDS_IN_LINE) =>
          LET gap == Millis(IncomingWord.start_time) - line_end_time
          IN  /\ gap = LINE_INTERVAL =>
                  /\ line' = <<IncomingWord.word>>
                  /\ Len(Document') = Len(Document) + 1
                  /\ Document'[Len(Document')].text = line
              /\ gap = LINE_INTERVAL - 1 =>
                  /\ line' = Append(line, IncomingWord.word)
                  /\ Document' = Document]_vars

C12_Witness ==
    /\ pc = "done"
    /\ Len(InputWords) >= 4
    /\ Len(Document) = 2
    /\ \E i \in 1..(Len(InputWords) - 1) : Gap(i) = LINE_INTERVAL
    /\ \E i \in 1..(Len(InputWords) - 1) : Gap(i) = LINE_INTERVAL - 1
    /\ Len(Document[1].text) < MAX_NUM_WORDS_IN_LINE

----------------------------------------------------------------------------
(* C13 as stated: two calls that run at the same time on different source  *)
(* paths and different target paths never use the same blob name, and      *)
(* while the recognition of either is running its blob is in the bucket.   *)
C13_IndependentBlobs ==
    (/\ pc \notin {"idle", "setup"}
     /\ other.pc # "idle"
     /\ source_audio_path # other.source
     /\ target_srt_path # other.target) =>
        /\ blob_name # other.blob_name
        /\ other.pc = "poll" => other.blob_name \in blobs
        /\ pc = "poll" => blob_name \in blobs

----------------------------------------------------------------------------
(* The five states of a call, and Failed, read off the program position *)

StateOf(p) ==
    CASE p = "idle" -> "Idle"
      [] p \in {"setup", "open_source", "initiate", "upload_loop"}
            -> "Uploading"
      [] p \in {"wave_open", "recognize", "poll"} -> "AwaitingTranscription"
      [] p \in {"delete", "open_target", "result", "words"} -> "Segmenting"
      [] p = "done" -> "Done"
      [] p = "failed" -> "Failed"

(* the moves of one call, and the return that ends it *)
CallMoves ==
    {<<"Idle", "Uploading">>,
     <<"Uploading", "AwaitingTranscription">>,
     <<"AwaitingTranscription", "Segmenting">>,
     <<"Segmenting", "Done">>,
     <<"Uploading", "Failed">>,
     <<"AwaitingTranscription", "Failed">>,
     <<"Segmenting", "Failed">>}

ReturnMoves == {<<"Done", "Idle">>, <<"Failed", "Idle">>}

(* C14: a call goes Idle, Uploading, AwaitingTranscription, Segmenting,    *)
(* Done in that order, one state at a time; Failed is entered only from    *)
(* the three middle states and is left only by the return of the call; the *)
(* recognition request is sent only after the upload has finished and a    *)
(* line is written only after the operation is done.                       *)
C14_StateOrder ==
    /\ [](/\ Count(Net("long_running_recognize")) > 0 =>
                /\ finished
                /\ bytes_uploaded = total_bytes
                /\ Count(Net("long_running_recognize")) = 1
          /\ Count(Io("write")) > 0 =>
                /\ operation.state = "succeeded"
                /\ Count(Net("delete")) = 1
          /\ StateOf(pc) = "Segmenting" => operation.state \in {"succeeded", "failed"}
          /\ StateOf(pc) = "AwaitingTranscription" => finished)
    /\ [][StateOf(pc') # StateOf(pc) =>
            /\ <<StateOf(pc), StateOf(pc')>> \in CallMoves \cup ReturnMoves
            /\ <<StateOf(pc), StateOf(pc')>> \in ReturnMoves => trace' = <<>>]_vars

C14_Witness ==
    /\ pc = "done"
    /\ Count(Net("transmit_next_chunk")) = MaxChunks
    /\ Count(Net("long_running_recognize")) = 1
    /\ Count(Io("write")) >= 1

----------------------------------------------------------------------------
RecognitionFailed == pc = "failed" /\ error = "RecognitionFailure"

(* C15 as stated: when the recognition operation ends in failure, the call *)
(* raises without having deleted the blob, which is still in the bucket.   *)
C15_BlobLeftOnRecognitionFailure ==
    RecognitionFailed =>
        /\ Count(Net("delete")) = 0
        /\ blob_name \in blobs

(* C15, amended: a failed operation is found done by the poll loop like a  *)
(* successful one, so the blob is deleted (line 93) before                 *)
(* operation.result() raises the failure (line 99): the blob is gone when  *)
(* the call exits.                                                         *)
C15_BlobDeletedOnRecognitionFailure ==
    /\ RecognitionFailed =>
          /\ operation.state = "failed"
          /\ Count(Net("delete")) = 1
          /\ blob_name \notin blobs
          /\ trace[Len(trace)] = Op("result")
    /\ (operation.state = "failed" /\ pc = "failed") =>
          error \in {"RecognitionFailure", "IOFailure"}

C15_Witness ==
    /\ RecognitionFailed
    /\ Count(Net("delete")) = 1
    /\ blob_name \notin blobs
    /\ Len(TranscribeEvents) = MaxPolls

(* C19 as stated: a call that fails during the upload or because the       *)
(* recognition operation failed leaves the target document as it found it. *)
C19_TargetUnchangedOnFailure ==
    (pc = "failed" /\ error \in {"TransferFailure", "RecognitionFailure"}) =>
        files[target_srt_path] = target_before

----------------------------------------------------------------------------
(* no word of the stream starts LINE_INTERVAL or more after the previous one *)
NoLongPause ==
    \A i \in 1..(Len(InputWords) - 1) : Gap(i) < LINE_INTERVAL

(* C16: n >= 1 words without a long pause give ceil(n / 12) lines, all of  *)
(* 12 words except the last, which holds the remainder.                    *)
C16_CountSplit ==
    (pc = "done" /\ Len(InputWords) >= 1 /\ NoLongPause) =>
        LET n == Len(InputWords)
            lines == (n + MAX_NUM_WORDS_IN_LINE - 1) \div MAX_NUM_WORDS_IN_LINE
        IN  /\ Len(Document) = lines
            /\ \A k \in 1..(lines - 1) :
                  Len(Document[k].text) = MAX_NUM_WORDS_IN_LINE
            /\ Len(Document[lines].text) =
                  n - (lines - 1) * MAX_NUM_WORDS_IN_LINE

C16_Witness ==
    /\ pc = "done"
    /\ NoLongPause
    /\ Len(InputWords) = MAX_NUM_WORDS_IN_LINE + 1
    /\ Len(Document) = 2
    /\ Len(Document[1].text) = MAX_NUM_WORDS_IN_LINE
    /\ Len(Document[2].text) = 1

RECURSIVE Texts(_)
(* the words of the written lines, in write order *)
Texts(doc) ==
    IF doc = <<>> THEN <<>>
    ELSE Texts(SubSeq(doc, 1, Len(doc) - 1)) \o doc[Len(doc)].text

InputTexts == [i \in 1..Len(InputWords) |-> InputWords[i].word]

(* C18: the written lines, read in order, hold exactly the input words in  *)
(* input order; while the loops run, the written lines followed by the     *)
(* pending line are the words read so far.                                 *)
C18_WordsPreserved ==
    /\ pc = "done" => Texts(Document) = InputTexts
    /\ pc = "words" =>
          LET out == Texts(Document) \o line
          IN  /\ Len(out) <= Len(InputTexts)
              /\ out = SubSeq(InputTexts, 1, Len(out))
              /\ res_i > Len(operation.results) => out = InputTexts

C18_Witness ==
    /\ pc = "done"
    /\ Len(operation.results) = 2
    /\ Len(Words(operation.results[1])) >= 1
    /\ Len(Document) >= 1
    /\ Len(Document[1].text) > Len(Words(operation.results[1]))
    /\ Texts(Document) = InputTexts

----------------------------------------------------------------------------
(* The fields of a formatted time, cut at the separators counted from the  *)
(* right, where the field widths are fixed                                 *)

Formatted == fmt.text # <<>>

HoursText == SubSeq(fmt.text, 1, Len(fmt.text) - 10)

FieldH == ParseDecimal(HoursText)

FieldM == ParseDecimal(SubSeq(fmt.text, Len(fmt.text) - 8, Len(fmt.text) - 7))

FieldS == ParseDecimal(SubSeq(fmt.text, Len(fmt.text) - 5, Len(fmt.text) - 4))

FieldF == ParseDecimal(SubSeq(fmt.text, Len(fmt.text) - 2, Len(fmt.text)))

IsDigits(t) == \A i \in 1..Len(t) : \E d \in 1..10 : t[i] = DigitChar[d]

(* the fields are in range, add up to the input and are laid out as        *)
(* digits:digits:digits,digits with two, two and three digits on the right *)
FieldsRight ==
    /\ Len(fmt.text) >= 12
    /\ fmt.text[Len(fmt.text) - 9] = ":"
    /\ fmt.text[Len(fmt.text) - 6] = ":"
    /\ fmt.text[Len(fmt.text) - 3] = ","
    /\ IsDigits(HoursText)
    /\ IsDigits(SubSeq(fmt.text, Len(fmt.text) - 8, Len(fmt.text) - 7))
    /\ IsDigits(SubSeq(fmt.text, Len(fmt.text) - 5, Len(fmt.text) - 4))
    /\ IsDigits(SubSeq(fmt.text, Len(fmt.text) - 2, Len(fmt.text)))
    /\ FieldM \in 0..59
    /\ FieldS \in 0..59
    /\ FieldF \in 0..999
    /\ FieldH * 3600000 + FieldM * 60000 + FieldS * 1000 + FieldF = fmt.millis

Text_0 == <<"0", "0", ":", "0", "0", ":", "0", "0", ",", "0", "0", "0">>

Text_3661001 == <<"0", "1", ":", "0", "1", ":", "0", "1", ",", "0", "0", "1">>

Text_59999 == <<"0", "0", ":", "0", "0", ":", "5", "9", ",", "9", "9", "9">>

Examples ==
    /\ fmt.millis = 0 => fmt.text = Text_0
    /\ fmt.millis = 3661001 => fmt.text = Text_3661001
    /\ fmt.millis = 59999 => fmt.text = Text_59999

(* C17 as stated: for every ms >= 0 the fields are in range and add up to  *)
(* ms, and the string has exactly two digits of hours, two of minutes, two *)
(* of seconds and three of milliseconds.                                   *)
C17_FixedWidth ==
    Formatted =>
        /\ FieldsRight
        /\ Len(HoursText) = 2
        /\ Len(fmt.text) = 12
        /\ Examples

(* C17, amended: the fields are in range and add up to ms for every        *)
(* ms >= 0; minutes and seconds have two digits and milliseconds three;    *)
(* the hours have two digits, and the string twelve characters, only for   *)
(* ms < 360000000: from 100 hours on the hours are written in full.        *)
C17_FieldsAndWidth ==
    Formatted =>
        /\ FieldsRight
        /\ Examples
        /\ HoursText = Pad(Decimal(fmt.millis \div 3600000), 2)
        /\ fmt.millis < 360000000 => Len(HoursText) = 2 /\ Len(fmt.text) = 12
        /\ fmt.millis >= 360000000 => Len(HoursText) > 2 /\ Len(fmt.text) > 12

C17_Witness ==
    /\ fmt.millis = 3661001
    /\ fmt.text = Text_3661001

----------------------------------------------------------------------------
Started == pc \notin {"idle", "done", "failed"}

Terminated == pc \in {"done", "failed"}

(* C20: every started transcribe call eventually terminates in Done or     *)
(* Failed, given that each chunk transmission advances bytes_uploaded or   *)
(* fails and that the operation eventually reports done; a transmission    *)
(* that returns does advance bytes_uploaded while bytes remain, and the    *)
(* poll loop is left by nothing but done() answering True: no step gives   *)
(* up on a running operation.                                              *)
C20_Terminates ==
    /\ Started ~> Terminated
    /\ [][/\ (pc = "upload_loop" /\ pc' = "upload_loop" /\ total_bytes > 0)
                => \/ bytes_uploaded' > bytes_uploaded
                   \/ UNCHANGED uploadVars
          /\ (pc = "poll" /\ operation.state = "running" /\ pc' # "poll")
                => operation'.state \in {"succeeded", "failed"}
          /\ (pc = "poll" /\ pc' = "poll" /\ operation.state = "running")
                => operation'.state = "running"]_vars

C20_Witness ==
    /\ Terminated
    /\ polls >= 1
    /\ bytes_uploaded > CHUNK_SIZE

====
